---- MODULE Spec2Model ----
(***************************************************************************)
(* The dashboard screen of image2plate, src/app/(dashboard)/index.tsx:     *)
(* capture an image, resolve its natural size, upload it to the detection  *)
(* backend and overlay the returned bounding boxes.                        *)
(*                                                                         *)
(* The React state of the component is the state of the model.  Every      *)
(* handler runs to completion between two awaits (JavaScript run-to-       *)
(* completion; the state updates of one continuation are committed         *)
(* together), so each action below is one such continuation.  The rendered *)
(* view is a function of the state and is modelled by operators.           *)
(* Numbers are mathematical: the quotients computed by the overlay are     *)
(* kept as fractions <<numerator, denominator>>.                           *)
(***************************************************************************)
EXTENDS Integers, Sequences, FiniteSets, TLC

VARIABLES
    imageUri,        \* useState<string | null>(null), index.tsx:26
    backendIP,       \* useState(''), index.tsx:27 (a sequence of characters)
    detections,      \* useState<any[]>([]), index.tsx:28
    loading,         \* useState(false), index.tsx:29
    originalWidth,   \* useState(0), index.tsx:32
    originalHeight,  \* useState(0), index.tsx:33
    renderedWidth,   \* useState(0), index.tsx:34
    pickCount,       \* number of pickImage invocations so far
    awaitPermission, \* pickImage invocations suspended at index.tsx:58
    awaitCamera,     \* pickImage invocations suspended at index.tsx:64
    getSizePending,  \* Image.getSize calls whose callback has not run, index.tsx:76
    sendCount,       \* number of fetch calls issued so far
    fetches,         \* fetch calls that have not settled, index.tsx:107
    layout,          \* the box last measured by the hosting surface (onLayout event)
    op,              \* the handler continuation that ran last
    alert,           \* the Alert.alert raised by that continuation, or NoAlert
    logged,          \* what that continuation wrote to the console about a settled
                     \* upload (index.tsx:115, 118, 122), or NoLog
    isLoggedIn,      \* useState(true), index.tsx:25
    displayName,     \* useState(''), index.tsx:24
    currentUser,     \* auth.currentUser of the firebase module, index.tsx:38
    effectPending,   \* the mount effect of index.tsx:37-45 has not run yet
    logoutPending,   \* handleLogout invocations suspended at index.tsx:49
    name,            \* useState(''), signup.tsx:11
    email,           \* useState(''), signup.tsx:12
    password,        \* useState(''), signup.tsx:13 (a sequence of characters)
    confirmPassword, \* useState(''), signup.tsx:14 (a sequence of characters)
    isLoading,       \* useState(false), signup.tsx:17
    error,           \* useState(''), signup.tsx:18
    signupAwait,     \* the await handleSignup is suspended at (signup.tsx:42, 44,
                     \* 46) with the name and email it captured, or NoAwait
    createCalls,     \* number of createUserWithEmailAndPassword calls so far
    toast,           \* the Toast shown by the continuation that ran last
    redirectPending, \* setTimeout callbacks of signup.tsx:60-62 not yet run
    route            \* the screen the router shows: "/signup" or "/"

vars == <<imageUri, backendIP, detections, loading, originalWidth, originalHeight,
          renderedWidth, pickCount, awaitPermission, awaitCamera, getSizePending,
          sendCount, fetches, layout, op, alert, logged,
          isLoggedIn, displayName, currentUser, effectPending, logoutPending,
          name, email, password, confirmPassword, isLoading, error, signupAwait,
          createCalls, toast, redirectPending, route>>

signupVars == <<name, email, password, confirmPassword, isLoading, error, signupAwait,
                createCalls, toast, redirectPending, route>>

authVars == <<isLoggedIn, displayName, currentUser, effectPending, logoutPending>>

reactVars == <<imageUri, backendIP, detections, loading, originalWidth,
               originalHeight, renderedWidth>>

dashboardVars == <<reactVars, pickCount, awaitPermission, awaitCamera, getSizePending,
                   sendCount, fetches, layout>>

----------------------------------------------------------------------------
(* Bounds *)

MaxPicks == 2       \* pickImage invocations explored
MaxSends == 2       \* fetch calls explored
MaxDets == 2        \* longest detections array in a response
MaxDim == 2         \* small dimensions fed to the mapper
MaxCoord == 2       \* small bbox coordinates fed to the mapper
MaxLogouts == 2     \* handleLogout invocations suspended at a time
MaxSignups == 2     \* createUserWithEmailAndPassword calls explored

----------------------------------------------------------------------------
(* Values *)

\* imageUri === null; every uri is a positive number
Null == 0
Undefined == "undefined"

\* a value read from data.detections: an array, or undefined when the field is absent
ArrayValue(items) == [isArray |-> TRUE, items |-> items]
UndefinedValue == [isArray |-> FALSE, items |-> <<>>]

Alert(title, message) == [title |-> title, message |-> message]
NoAlert == Alert("none", "none")

\* console.log('Detection results:', data.detections), console.error('Backend
\* error:', data.error), console.error('Error connecting to backend:', error)
Log(kind, results, e) == [kind |-> kind, results |-> results, error |-> e]
NoLog == Log("none", UndefinedValue, Undefined)

\* auth.currentUser: a firebase User, or null
User(dn, em) == [present |-> TRUE, displayName |-> dn, email |-> em]
NoUser == [present |-> FALSE, displayName |-> Undefined, email |-> Undefined]
Users == {User("Ann", "ann@example.com"), User(Undefined, "ann@example.com"),
          User(Undefined, Undefined)}

\* what handleSignup is suspended at
Await(at, n, e) == [at |-> at, name |-> n, email |-> e]
NoAwait == Await("none", "", "")

\* if (password.length < 6), signup.tsx:34
MinPasswordLength == 6

\* the texts typed into the fields of the signup form
Names == {"", "Ann"}
Emails == {"", "ann@example.com"}
Pw(n, c) == [i \in 1..n |-> c]
Passwords == {Pw(0, "a"), Pw(MinPasswordLength - 1, "a"), Pw(MinPasswordLength, "a"),
              Pw(MinPasswordLength, "b")}

\* what an await of signup.tsx:42-46 can reject with
AuthError(code, message) == [code |-> code, message |-> message]
AuthErrors ==
    {AuthError("auth/email-already-in-use", "Firebase: Error (auth/email-already-in-use)."),
     AuthError("auth/invalid-email", "Firebase: Error (auth/invalid-email)."),
     AuthError("auth/weak-password", "Firebase: Error (auth/weak-password)."),
     AuthError("auth/network-request-failed", "Firebase: Error (auth/network-request-failed)."),
     AuthError(Undefined, Undefined)}

\* height of styles.imagePreview; the container has no other in-flow child
ImagePreviewHeight == 250

\* result.assets[0].uri: every capture writes a new file, so the uri of the
\* n-th pickImage invocation is n
UriOf(id) == id

\* the dimensions Image.getSize decodes for a uri
DecodedWidth(uri) == 600 + 400 * uri
DecodedHeight(uri) == 600 + 200 * uri

\* the texts typed into the backend address field: empty, blank, an address,
\* an address with surrounding blanks
BackendIPs == {<<>>, <<" ">>, <<"1">>, <<" ", "1", " ">>}

LayoutWidths == {500, 1000}

Bbox(a, b, c, d) == [x1 |-> a, y1 |-> b, x2 |-> c, y2 |-> d]
\* confidence is kept in hundredths: 92 is 0.92
Det(c, conf, box) == [class |-> c, confidence |-> conf, bbox |-> box]

DetectionPool ==
    { Det("apple", 92, Bbox(100, 100, 300, 300)),
      Det("fork", 40, Bbox(0, 0, 1000, 800)),
      Det("plate", 150, Bbox(10, 10, 50, 60)) }

\* the arrays of distinct entries of the pool, at most MaxDets long
DetectionArrays ==
    UNION {{a \in [1..n -> DetectionPool] : \A i, j \in 1..n : a[i] = a[j] => i = j} :
              n \in 0..MaxDets}

\* the errors the try block of index.tsx:105-120 can throw
NetworkFailure == "TypeError: Network request failed"
JsonParseFailure == "SyntaxError: JSON Parse error"

ErrorMessages == {Undefined, "", "model not loaded"}

\* what the fetch of index.tsx:107 can settle with
Responses ==
    {[kind |-> "reject", ok |-> FALSE, detections |-> UndefinedValue, error |-> Undefined]}
    \cup {[kind |-> "badjson", ok |-> o, detections |-> UndefinedValue, error |-> Undefined] :
             o \in BOOLEAN}
    \cup {[kind |-> "json", ok |-> TRUE, detections |-> d, error |-> Undefined] :
             d \in {ArrayValue(a) : a \in DetectionArrays} \cup {UndefinedValue}}
    \cup {[kind |-> "json", ok |-> FALSE, detections |-> UndefinedValue, error |-> e] :
             e \in ErrorMessages}

----------------------------------------------------------------------------
(* Pure helpers *)

\* String.prototype.trim on a sequence of characters
RECURSIVE TrimLeft(_)
TrimLeft(s) ==
    IF s = <<>> THEN <<>>
    ELSE IF Head(s) = " " THEN TrimLeft(Tail(s)) ELSE s

RECURSIVE TrimRight(_)
TrimRight(s) ==
    IF s = <<>> THEN <<>>
    ELSE IF s[Len(s)] = " " THEN TrimRight(SubSeq(s, 1, Len(s) - 1)) ELSE s

trim(s) == TrimRight(TrimLeft(s))

\* a || b for strings: "" and undefined are falsy
OrElse(a, b) == IF a = Undefined \/ a = "" THEN b ELSE a

Frac(n, d) == <<n, d>>
FracEq(a, b) == a[1] * b[2] = b[1] * a[2]
FracTimes(k, f) == Frac(k * f[1], f[2])

\* arithmetic on fractions with positive denominators
RECURSIVE GCD(_, _)
GCD(a, b) == IF b = 0 THEN a ELSE GCD(b, a % b)
Abs(n) == IF n < 0 THEN -n ELSE n
Norm(f) == LET g == GCD(Abs(f[1]), f[2]) IN Frac(f[1] \div g, f[2] \div g)
FracPlus(a, b) ==
    LET x == Norm(a)
        y == Norm(b)
    IN Norm(Frac(x[1] * y[2] + y[1] * x[2], x[2] * y[2]))
FracMinus(a, b) == FracPlus(a, Frac(-b[1], b[2]))
FracHalf(a) == Norm(Frac(a[1], 2 * a[2]))
FracLeq(a, b) == LET x == Norm(a)
                     y == Norm(b)
                 IN x[1] * y[2] <= y[1] * x[2]
FracMin(a, b) == IF FracLeq(a, b) THEN a ELSE b

----------------------------------------------------------------------------
(* The rendered view, index.tsx:129-238 *)

\* detections.length (index.tsx:193) throws when detections is not an array
ScreenRendered == detections.isArray

\* the raw preview, and its button, rendered whatever the detections are
RawPreviewShown_Always == ScreenRendered /\ imageUri # Null

\* {imageUri && detections.length === 0 && ...}, index.tsx:193
RawPreviewShown == ScreenRendered /\ imageUri # Null /\ Len(detections.items) = 0

\* {imageUri && detections.length > 0 && ...}, index.tsx:214
ProcessedShown == ScreenRendered /\ imageUri # Null /\ Len(detections.items) > 0

\* the process button never disabled
processButtonDisabled_Never == FALSE

\* disabled={loading}, index.tsx:203
processButtonDisabled == loading

\* the quotient taken the wrong way round
scale_Inverted == Frac(originalWidth, renderedWidth)

\* const scale = renderedWidth / originalWidth, index.tsx:138
scale == Frac(renderedWidth, originalWidth)

\* the style { left, top, width, height } of one box, index.tsx:141-145
bboxStyle(det) ==
    [left   |-> FracTimes(det.bbox.x1, scale),
     top    |-> FracTimes(det.bbox.y1, scale),
     width  |-> FracTimes(det.bbox.x2 - det.bbox.x1, scale),
     height |-> FracTimes(det.bbox.y2 - det.bbox.y1, scale)]

\* if (!renderedWidth || !originalWidth) return null, index.tsx:136
overlayUnavailable == renderedWidth = 0 \/ originalWidth = 0

\* renderDetectionsOverlay, index.tsx:135-158: null, or one box per detection
renderDetectionsOverlay ==
    IF overlayUnavailable
    THEN [drawn |-> FALSE, boxes |-> <<>>]
    ELSE [drawn |-> TRUE,
          boxes |-> [i \in 1..Len(detections.items) |-> bboxStyle(detections.items[i])]]

\* the border colour of the box at an index of detections.map: the style is
\* [styles.bbox, { left, top, width, height }], index.tsx:149-152, and
\* styles.bbox has borderColor '#FF0000', index.tsx:298-303
bboxBorderColor(index) == "#FF0000"

\* the results list, index.tsx:227-231: one line per detection
detectionsList ==
    [i \in 1..Len(detections.items) |->
        [class |-> detections.items[i].class,
         confidence |-> detections.items[i].confidence]]

----------------------------------------------------------------------------
(* Initial state: the useState initialisers, index.tsx:24-34, after the mount *)
(* effect of index.tsx:37-45 has found a current user                         *)

\* setDisplayName(user.displayName || user.email || 'User'), index.tsx:42
displayNameOf(user) == OrElse(OrElse(user.displayName, user.email), "User")

\* the useState initialisers of the signup screen, signup.tsx:11-18, with no
\* signup in progress
SignupIdle ==
    /\ name = ""
    /\ email = ""
    /\ password = <<>>
    /\ confirmPassword = <<>>
    /\ isLoading = FALSE
    /\ error = ""
    /\ signupAwait = NoAwait
    /\ createCalls = 0
    /\ toast = "none"
    /\ redirectPending = 0

\* the dashboard mounted for a signed-in user, no sign-out requested
LoggedInSession ==
    /\ currentUser = User("Ann", "ann@example.com")
    /\ isLoggedIn = TRUE
    /\ displayName = displayNameOf(currentUser)
    /\ effectPending = FALSE
    /\ logoutPending = 0
    /\ SignupIdle
    /\ route = "/"

Init ==
    /\ imageUri = Null
    /\ backendIP = <<>>
    /\ detections = ArrayValue(<<>>)
    /\ loading = FALSE
    /\ originalWidth = 0
    /\ originalHeight = 0
    /\ renderedWidth = 0
    /\ pickCount = 0
    /\ awaitPermission = {}
    /\ awaitCamera = {}
    /\ getSizePending = {}
    /\ sendCount = 0
    /\ fetches = {}
    /\ layout = [width |-> 0, height |-> 0]
    /\ op = "mount"
    /\ alert = NoAlert
    /\ logged = NoLog
    /\ LoggedInSession

----------------------------------------------------------------------------
(* Backend address input, index.tsx:178-184 *)

\* onChangeText={setBackendIP}
setBackendIP(text) ==
    /\ ScreenRendered
    /\ backendIP' = text
    /\ UNCHANGED <<authVars, signupVars>>
    /\ op' = "setBackendIP"
    /\ alert' = NoAlert
    /\ logged' = NoLog
    /\ UNCHANGED <<imageUri, detections, loading, originalWidth, originalHeight,
                   renderedWidth, pickCount, awaitPermission, awaitCamera,
                   getSizePending, sendCount, fetches, layout>>

----------------------------------------------------------------------------
(* pickImage, index.tsx:57-84 *)

\* onPress={pickImage}: runs up to the await of requestCameraPermissionsAsync
pickImage ==
    /\ ScreenRendered
    /\ pickCount < MaxPicks
    /\ pickCount' = pickCount + 1
    /\ awaitPermission' = awaitPermission \cup {pickCount + 1}
    /\ UNCHANGED <<authVars, signupVars>>
    /\ op' = "pickImage"
    /\ alert' = NoAlert
    /\ logged' = NoLog
    /\ UNCHANGED <<reactVars, awaitCamera, getSizePending, sendCount, fetches, layout>>

\* the denied branch without its return: the camera is launched all the same
deniedAwaitCamera_FallThrough(id) == awaitCamera \cup {id}

\* return, index.tsx:61: launchCameraAsync is not reached
deniedAwaitCamera(id) == awaitCamera

\* index.tsx:59-62: status !== 'granted'
pickImagePermissionDenied(id) ==
    /\ id \in awaitPermission
    /\ awaitPermission' = awaitPermission \ {id}
    /\ awaitCamera' = deniedAwaitCamera(id)
    /\ UNCHANGED <<authVars, signupVars>>
    /\ op' = "pickImage.denied"
    /\ alert' = Alert("Permission Denied", "Camera access is required to take pictures.")
    /\ logged' = NoLog
    /\ UNCHANGED <<reactVars, pickCount, getSizePending, sendCount, fetches, layout>>

\* index.tsx:64: permission granted, launchCameraAsync is called and awaited
pickImageLaunchCamera(id) ==
    /\ id \in awaitPermission
    /\ awaitPermission' = awaitPermission \ {id}
    /\ awaitCamera' = awaitCamera \cup {id}
    /\ UNCHANGED <<authVars, signupVars>>
    /\ op' = "pickImage.launch"
    /\ alert' = NoAlert
    /\ logged' = NoLog
    /\ UNCHANGED <<reactVars, pickCount, getSizePending, sendCount, fetches, layout>>

\* a cancelled dialog clearing the image
canceledImageUri_Cleared == Null

\* if (!result.canceled) { ... }, index.tsx:70: nothing is written otherwise
canceledImageUri == imageUri

\* index.tsx:70: result.canceled
pickImageCanceled(id) ==
    /\ id \in awaitCamera
    /\ awaitCamera' = awaitCamera \ {id}
    /\ imageUri' = canceledImageUri
    /\ UNCHANGED <<authVars, signupVars>>
    /\ op' = "pickImage.canceled"
    /\ alert' = NoAlert
    /\ logged' = NoLog
    /\ UNCHANGED <<backendIP, detections, loading, originalWidth, originalHeight,
                   renderedWidth, pickCount, awaitPermission, getSizePending,
                   sendCount, fetches, layout>>

\* the capture continuation without its setDetections([])
pickImageDetections_Kept == detections

\* setDetections([]), index.tsx:74
pickImageDetections == ArrayValue(<<>>)

\* index.tsx:70-83: a picture was taken; the continuation writes neither
\* originalWidth nor originalHeight
pickImageCaptured(id) ==
    /\ id \in awaitCamera
    /\ awaitCamera' = awaitCamera \ {id}
    /\ imageUri' = UriOf(id)
    /\ detections' = pickImageDetections
    /\ getSizePending' = getSizePending \cup {UriOf(id)}
    /\ UNCHANGED <<authVars, signupVars>>
    /\ op' = "pickImage.captured"
    /\ alert' = NoAlert
    /\ logged' = NoLog
    /\ UNCHANGED <<backendIP, loading, originalWidth, originalHeight, renderedWidth,
                   pickCount, awaitPermission, sendCount, fetches, layout>>

\* setOriginalWidth(width), index.tsx:77
onGetSizeWidth(width) == width

\* the callback without its setOriginalHeight(height)
onGetSizeHeight_Stale(height) == originalHeight

\* setOriginalHeight(height), index.tsx:78
onGetSizeHeight(height) == height

\* the success callback of Image.getSize, index.tsx:76-79
getSizeSuccess(uri) ==
    /\ uri \in getSizePending
    /\ getSizePending' = getSizePending \ {uri}
    /\ originalWidth' = onGetSizeWidth(DecodedWidth(uri))
    /\ originalHeight' = onGetSizeHeight(DecodedHeight(uri))
    /\ UNCHANGED <<authVars, signupVars>>
    /\ op' = "getSize.success"
    /\ alert' = NoAlert
    /\ logged' = NoLog
    /\ UNCHANGED <<imageUri, backendIP, detections, loading, renderedWidth, pickCount,
                   awaitPermission, awaitCamera, sendCount, fetches, layout>>

\* the failure callback of Image.getSize, index.tsx:80-82: console.error only
getSizeFailure(uri) ==
    /\ uri \in getSizePending
    /\ getSizePending' = getSizePending \ {uri}
    /\ UNCHANGED <<authVars, signupVars>>
    /\ op' = "getSize.failure"
    /\ alert' = NoAlert
    /\ logged' = NoLog
    /\ UNCHANGED <<reactVars, pickCount, awaitPermission, awaitCamera, sendCount,
                   fetches, layout>>

----------------------------------------------------------------------------
(* sendToBackend, index.tsx:86-127 *)

MissingIP == Alert("Missing IP", "Please enter the backend server IP.")
NoImage == Alert("No Image", "Please capture an image first.")

\* the two checks in the other order
sendToBackendRejects_ImageFirst ==
    IF imageUri = Null THEN NoImage
    ELSE IF trim(backendIP) = <<>> THEN MissingIP
    ELSE NoAlert

\* the checks of index.tsx:87-94: the alert they raise before returning, or NoAlert
sendToBackendRejects ==
    IF trim(backendIP) = <<>> THEN MissingIP
    ELSE IF imageUri = Null THEN NoImage
    ELSE NoAlert

\* the body of sendToBackend up to the await of fetch, index.tsx:87-107
sendToBackendHandler ==
    /\ sendCount < MaxSends
    /\ UNCHANGED <<authVars, signupVars>>
    /\ op' = "sendToBackend"
    /\ alert' = sendToBackendRejects
    /\ logged' = NoLog
    /\ IF sendToBackendRejects # NoAlert
       THEN UNCHANGED <<loading, sendCount, fetches>>
       ELSE /\ loading' = TRUE
            /\ sendCount' = sendCount + 1
            /\ fetches' = fetches \cup
                  {[id |-> sendCount + 1, uri |-> imageUri]}
    /\ UNCHANGED <<imageUri, backendIP, detections, originalWidth, originalHeight,
                   renderedWidth, pickCount, awaitPermission, awaitCamera,
                   getSizePending, layout>>

\* onPress={sendToBackend} on the enabled process button, index.tsx:203
sendToBackend ==
    /\ RawPreviewShown
    /\ ~processButtonDisabled
    /\ sendToBackendHandler

\* a press on the process button while disabled={loading}: no handler runs
processButtonPressDisabled ==
    /\ RawPreviewShown
    /\ processButtonDisabled
    /\ UNCHANGED <<authVars, signupVars>>
    /\ op' = "processButton.disabled"
    /\ alert' = NoAlert
    /\ logged' = NoLog
    /\ UNCHANGED <<reactVars, pickCount, awaitPermission, awaitCamera, getSizePending,
                   sendCount, fetches, layout>>

\* the array applied back to front
responseDetections_Reversed(resp) ==
    [isArray |-> resp.detections.isArray,
     items |-> [i \in 1..Len(resp.detections.items) |->
                   resp.detections.items[Len(resp.detections.items) + 1 - i]]]

\* setDetections(data.detections), index.tsx:116
responseDetections(resp) == resp.detections

\* the finally block without its setLoading(false)
finallyLoading_Kept == loading

\* finally { setLoading(false) }, index.tsx:124-126
finallyLoading == FALSE

\* a settled upload writing the rendered width over the natural width
settledOriginalWidth_Rendered == renderedWidth

\* the continuation that settles an upload calls setDetections, Alert.alert and
\* setLoading only, index.tsx:113-126: the natural size is not written
settledOriginalWidth == originalWidth

\* a failed request issued again
failedFetches_Retry(req) == fetches

\* index.tsx:117-126: a failed request is settled, nothing issues it again
failedFetches(req) == fetches \ {req}

\* index.tsx:113-116 and 125: response.ok, setDetections(data.detections)
sendToBackendOk(req, resp) ==
    /\ req \in fetches
    /\ resp.kind = "json" /\ resp.ok
    /\ fetches' = fetches \ {req}
    /\ detections' = responseDetections(resp)
    /\ loading' = finallyLoading
    /\ UNCHANGED <<authVars, signupVars>>
    /\ op' = "sendToBackend.ok"
    /\ alert' = NoAlert
    /\ logged' = Log("results", resp.detections, Undefined)
    /\ originalWidth' = settledOriginalWidth
    /\ UNCHANGED <<imageUri, backendIP, originalHeight, renderedWidth,
                   pickCount, awaitPermission, awaitCamera, getSizePending, sendCount,
                   layout>>

\* index.tsx:117-120 and 125: a non-2xx response with a JSON body
sendToBackendServerError(req, resp) ==
    /\ req \in fetches
    /\ resp.kind = "json" /\ ~resp.ok
    /\ fetches' = failedFetches(req)
    /\ loading' = finallyLoading
    /\ UNCHANGED <<authVars, signupVars>>
    /\ op' = "sendToBackend.serverError"
    /\ alert' = Alert("Error", OrElse(resp.error, "Failed to process image."))
    /\ logged' = Log("error", UndefinedValue, resp.error)
    /\ originalWidth' = settledOriginalWidth
    /\ UNCHANGED <<imageUri, backendIP, detections, originalHeight,
                   renderedWidth, pickCount, awaitPermission, awaitCamera,
                   getSizePending, sendCount, layout>>

\* index.tsx:121-125: fetch rejected, or response.json() rejected
sendToBackendCatch(req, resp) ==
    /\ req \in fetches
    /\ resp.kind \in {"reject", "badjson"}
    /\ fetches' = failedFetches(req)
    /\ loading' = finallyLoading
    /\ UNCHANGED <<authVars, signupVars>>
    /\ op' = "sendToBackend.catch"
    /\ alert' = Alert("Error", "Could not connect to backend.")
    /\ logged' = Log("error", UndefinedValue,
                     IF resp.kind = "reject" THEN NetworkFailure ELSE JsonParseFailure)
    /\ originalWidth' = settledOriginalWidth
    /\ UNCHANGED <<imageUri, backendIP, detections, originalHeight,
                   renderedWidth, pickCount, awaitPermission, awaitCamera,
                   getSizePending, sendCount, layout>>

----------------------------------------------------------------------------
(* Layout tracking, index.tsx:195-200 and 216-221 *)

\* onLayout of the image container: only the width of the event is kept
onLayout(w, h) ==
    /\ RawPreviewShown \/ ProcessedShown
    /\ layout' = [width |-> w, height |-> h]
    /\ renderedWidth' = w
    /\ UNCHANGED <<authVars, signupVars>>
    /\ op' = "onLayout"
    /\ alert' = NoAlert
    /\ logged' = NoLog
    /\ UNCHANGED <<imageUri, backendIP, detections, loading, originalWidth,
                   originalHeight, pickCount, awaitPermission, awaitCamera,
                   getSizePending, sendCount, fetches>>

----------------------------------------------------------------------------
(* The dashboard session *)

Next ==
    \/ \E text \in BackendIPs : setBackendIP(text)
    \/ pickImage
    \/ \E id \in awaitPermission : pickImagePermissionDenied(id)
    \/ \E id \in awaitPermission : pickImageLaunchCamera(id)
    \/ \E id \in awaitCamera : pickImageCanceled(id)
    \/ \E id \in awaitCamera : pickImageCaptured(id)
    \/ \E uri \in getSizePending : getSizeSuccess(uri)
    \/ \E uri \in getSizePending : getSizeFailure(uri)
    \/ sendToBackend
    \/ processButtonPressDisabled
    \/ \E req \in fetches, resp \in Responses : sendToBackendOk(req, resp)
    \/ \E req \in fetches, resp \in Responses : sendToBackendServerError(req, resp)
    \/ \E req \in fetches, resp \in Responses : sendToBackendCatch(req, resp)
    \/ \E w \in LayoutWidths : onLayout(w, ImagePreviewHeight)

Spec == Init /\ [][Next]_vars

----------------------------------------------------------------------------
(* The coordinate mapper on bounded inputs: a processed view, not yet laid   *)
(* out, whose natural size and single detection are drawn from small sets,   *)
(* and which the hosting surface measures and re-measures.                   *)

NaturalWidths == (0..MaxDim) \cup {1000}
NaturalHeights == (0..MaxDim) \cup {800}
RenderedWidths == (0..MaxDim) \cup {500, 1000}
RenderedHeights == (0..MaxDim) \cup {ImagePreviewHeight, 400}

MapBoxes ==
    {Bbox(a, b, c, d) : a \in 0..MaxCoord, b \in 0..MaxCoord,
                        c \in 0..MaxCoord, d \in 0..MaxCoord}
    \cup {Bbox(0, 0, w, h) : w \in NaturalWidths, h \in NaturalHeights}
    \cup {Bbox(100, 100, 300, 300)}

MapInit ==
    /\ imageUri = UriOf(1)
    /\ backendIP = <<"1">>
    /\ detections \in {ArrayValue(<<Det("apple", 92, box)>>) : box \in MapBoxes}
    /\ loading = FALSE
    /\ originalWidth \in NaturalWidths
    /\ originalHeight \in NaturalHeights
    /\ layout = [width |-> 0, height |-> 0]
    /\ renderedWidth = 0
    /\ pickCount = 1
    /\ awaitPermission = {}
    /\ awaitCamera = {}
    /\ getSizePending = {}
    /\ sendCount = 1
    /\ fetches = {}
    /\ op = "sendToBackend.ok"
    /\ alert = NoAlert
    /\ logged = Log("results", detections, Undefined)
    /\ LoggedInSession

MapNext == \E w \in RenderedWidths, h \in RenderedHeights : onLayout(w, h)

MapSpec == MapInit /\ [][MapNext]_vars

----------------------------------------------------------------------------
(* The dashboard variant of src/app/(frontpage)/_layout.tsx:591-925: the     *)
(* image is displayed with resizeMode="contain" in a styles.imagePreview box *)
(* and onImageLayout keeps the whole measured box.  The variant has the same *)
(* state names; its measured box is the variable layout.                     *)

\* height of styles.imagePreview of the variant
ContainPreviewHeight == 300

\* const [renderedImageSize, setRenderedImageSize], written by onImageLayout
renderedImageSize == layout

\* if (!renderedImageSize.width || !originalWidth || !originalHeight) return null
containOverlayUnavailable ==
    renderedImageSize.width = 0 \/ originalWidth = 0 \/ originalHeight = 0

\* const scaleWidth = renderedImageSize.width / originalWidth
scaleWidth == Frac(renderedImageSize.width, originalWidth)

\* const scaleHeight = renderedImageSize.height / originalHeight
scaleHeight == Frac(renderedImageSize.height, originalHeight)

\* left, top, width, height of one box of the variant
containBboxStyle(det) ==
    [left   |-> FracTimes(det.bbox.x1, scaleWidth),
     top    |-> FracTimes(det.bbox.y1, scaleHeight),
     width  |-> FracTimes(det.bbox.x2 - det.bbox.x1, scaleWidth),
     height |-> FracTimes(det.bbox.y2 - det.bbox.y1, scaleHeight)]

\* renderDetectionsOverlay of the variant: null, or one box per detection
containDetectionsOverlay ==
    IF containOverlayUnavailable
    THEN [drawn |-> FALSE, boxes |-> <<>>]
    ELSE [drawn |-> TRUE,
          boxes |-> [i \in 1..Len(detections.items) |->
                        containBboxStyle(detections.items[i])]]

\* onImageLayout: setRenderedImageSize({ width, height })
onImageLayout(w, h) ==
    /\ imageUri # Null
    /\ layout' = [width |-> w, height |-> h]
    /\ UNCHANGED <<authVars, signupVars>>
    /\ op' = "onImageLayout"
    /\ alert' = NoAlert
    /\ logged' = NoLog
    /\ UNCHANGED <<reactVars, pickCount, awaitPermission, awaitCamera, getSizePending,
                   sendCount, fetches>>

ContainRenderedHeights == (0..MaxDim) \cup {ContainPreviewHeight}

\* bboxes inside the natural rectangle
ContainBoxes ==
    {Bbox(a, b, c, d) : a \in 0..MaxCoord, b \in 0..MaxCoord,
                        c \in 1..MaxCoord, d \in 1..MaxCoord}
    \cup {Bbox(0, 0, w, h) : w \in NaturalWidths, h \in NaturalHeights}
    \cup {Bbox(100, 100, 300, 300)}

\* the detections of a settled upload over an image not yet measured
ContainInit ==
    /\ imageUri = UriOf(1)
    /\ backendIP = <<"1">>
    /\ detections \in {ArrayValue(<<Det("apple", 92, box)>>) : box \in ContainBoxes}
    /\ loading = FALSE
    /\ originalWidth \in NaturalWidths
    /\ originalHeight \in NaturalHeights
    /\ layout = [width |-> 0, height |-> 0]
    /\ renderedWidth = 0
    /\ pickCount = 1
    /\ awaitPermission = {}
    /\ awaitCamera = {}
    /\ getSizePending = {}
    /\ sendCount = 1
    /\ fetches = {}
    /\ op = "sendToBackend.ok"
    /\ alert = NoAlert
    /\ logged = Log("results", detections, Undefined)
    /\ LoggedInSession

ContainNext ==
    \E w \in RenderedWidths, h \in ContainRenderedHeights : onImageLayout(w, h)

ContainSpec == ContainInit /\ [][ContainNext]_vars

\* onPress={() => setImageUri(null)} of the "Clear Image" button, which the
\* variant renders when detections.length > 0, _layout.tsx:885-892
clearImage ==
    /\ imageUri # Null
    /\ detections.isArray
    /\ Len(detections.items) > 0
    /\ imageUri' = Null
    /\ UNCHANGED <<authVars, signupVars>>
    /\ op' = "clearImage"
    /\ alert' = NoAlert
    /\ logged' = NoLog
    /\ UNCHANGED <<backendIP, detections, loading, originalWidth, originalHeight,
                   renderedWidth, pickCount, awaitPermission, awaitCamera,
                   getSizePending, sendCount, fetches, layout>>

\* the results list of the variant is rendered outside {imageUri && ...},
\* _layout.tsx:898
variantResultsListShown == detections.isArray /\ Len(detections.items) > 0

\* the variant after a settled upload: layout passes and the Clear Image button
ClearNext ==
    \/ \E w \in RenderedWidths, h \in ContainRenderedHeights : onImageLayout(w, h)
    \/ clearImage

ClearSpec == ContainInit /\ [][ClearNext]_vars

----------------------------------------------------------------------------
(* The handler sendToBackend on bounded inputs: it is invoked in the states   *)
(* of an idle session, with or without an image, whatever the address field  *)
(* holds.                                                                    *)

DetectInit ==
    /\ backendIP \in BackendIPs
    /\ \/ /\ imageUri = Null
          /\ detections = ArrayValue(<<>>)
          /\ originalWidth = 0
          /\ originalHeight = 0
          /\ pickCount = 0
       \/ /\ imageUri = UriOf(1)
          /\ detections \in {ArrayValue(a) : a \in DetectionArrays}
          /\ \/ originalWidth = 0 /\ originalHeight = 0
             \/ /\ originalWidth = DecodedWidth(imageUri)
                /\ originalHeight = DecodedHeight(imageUri)
          /\ pickCount = 1
    /\ loading = FALSE
    /\ renderedWidth = 0
    /\ awaitPermission = {}
    /\ awaitCamera = {}
    /\ getSizePending = {}
    /\ sendCount = 0
    /\ fetches = {}
    /\ layout = [width |-> 0, height |-> 0]
    /\ op = "mount"
    /\ alert = NoAlert
    /\ logged = NoLog
    /\ LoggedInSession

DetectNext == sendToBackendHandler

DetectSpec == DetectInit /\ [][DetectNext]_vars

----------------------------------------------------------------------------
(* The login gate, index.tsx:36-55 and 129-132.  The dashboard session above *)
(* is that of a signed-in user who does not sign out; here the component is   *)
(* either just constructed, with or without a current user, or in a state of *)
(* an idle session, and the mount effect and handleLogout act on it.         *)

\* if (!isLoggedIn) return <Frontpage />, index.tsx:130-132
FrontpageShown == ~isLoggedIn
DashboardShown == isLoggedIn /\ ScreenRendered

\* the effect leaving isLoggedIn at its initial value
effectIsLoggedIn_Kept(user) == isLoggedIn

\* if (!user) setIsLoggedIn(false) else setIsLoggedIn(true), index.tsx:39-44
effectIsLoggedIn(user) == user.present

\* useEffect(() => { ... }, []), index.tsx:37-45
mountEffect ==
    /\ effectPending
    /\ effectPending' = FALSE
    /\ isLoggedIn' = effectIsLoggedIn(currentUser)
    /\ displayName' = IF currentUser.present THEN displayNameOf(currentUser)
                      ELSE displayName
    /\ UNCHANGED signupVars
    /\ op' = "mountEffect"
    /\ alert' = NoAlert
    /\ logged' = NoLog
    /\ UNCHANGED <<reactVars, pickCount, awaitPermission, awaitCamera, getSizePending,
                   sendCount, fetches, layout, currentUser, logoutPending>>

\* onPress={handleLogout}, index.tsx:166: runs up to the await of signOut
handleLogout ==
    /\ DashboardShown
    /\ ~effectPending
    /\ logoutPending < MaxLogouts
    /\ logoutPending' = logoutPending + 1
    /\ UNCHANGED signupVars
    /\ op' = "handleLogout"
    /\ alert' = NoAlert
    /\ logged' = NoLog
    /\ UNCHANGED <<reactVars, pickCount, awaitPermission, awaitCamera, getSizePending,
                   sendCount, fetches, layout, isLoggedIn, displayName, currentUser,
                   effectPending>>

\* index.tsx:49-50: signOut resolved, the firebase module has no current user
signOutResolved ==
    /\ logoutPending > 0
    /\ logoutPending' = logoutPending - 1
    /\ currentUser' = NoUser
    /\ isLoggedIn' = FALSE
    /\ UNCHANGED signupVars
    /\ op' = "handleLogout.signedOut"
    /\ alert' = NoAlert
    /\ logged' = NoLog
    /\ UNCHANGED <<reactVars, pickCount, awaitPermission, awaitCamera, getSizePending,
                   sendCount, fetches, layout, displayName, effectPending>>

\* index.tsx:51-54: signOut rejected
signOutRejected ==
    /\ logoutPending > 0
    /\ logoutPending' = logoutPending - 1
    /\ UNCHANGED signupVars
    /\ op' = "handleLogout.failed"
    /\ alert' = Alert("Error", "Failed to log out. Please try again.")
    /\ logged' = NoLog
    /\ UNCHANGED <<reactVars, pickCount, awaitPermission, awaitCamera, getSizePending,
                   sendCount, fetches, layout, isLoggedIn, displayName, currentUser,
                   effectPending>>

\* the component as constructed, before its mount effect has run
ConstructInit ==
    /\ imageUri = Null
    /\ backendIP = <<>>
    /\ detections = ArrayValue(<<>>)
    /\ loading = FALSE
    /\ originalWidth = 0
    /\ originalHeight = 0
    /\ renderedWidth = 0
    /\ pickCount = 0
    /\ awaitPermission = {}
    /\ awaitCamera = {}
    /\ getSizePending = {}
    /\ sendCount = 0
    /\ fetches = {}
    /\ layout = [width |-> 0, height |-> 0]
    /\ op = "construct"
    /\ alert = NoAlert
    /\ logged = NoLog
    /\ isLoggedIn = TRUE
    /\ displayName = ""
    /\ currentUser \in Users \cup {NoUser}
    /\ effectPending = TRUE
    /\ logoutPending = 0
    /\ SignupIdle
    /\ route = "/"

AuthInit == ConstructInit \/ DetectInit

AuthNext ==
    \/ mountEffect
    \/ handleLogout
    \/ signOutResolved
    \/ signOutRejected

AuthSpec == AuthInit /\ [][AuthNext]_vars

----------------------------------------------------------------------------
(* The signup screen, src/app/(frontpage)/signup.tsx.  The visibility toggles *)
(* of the two password fields (showPassword, showConfirmPassword) only change *)
(* how the fields are drawn and are left out.  State writes of a continuation *)
(* that runs after the router has left the screen are applied all the same:  *)
(* the state of the unmounted component is not observed.                     *)

SignupShown == route = "/signup"

\* onChangeText={setName}, signup.tsx:118
setName(text) ==
    /\ SignupShown
    /\ name' = text
    /\ op' = "setName"
    /\ alert' = NoAlert
    /\ logged' = NoLog
    /\ toast' = "none"
    /\ UNCHANGED <<dashboardVars, authVars, email, password, confirmPassword, isLoading,
                   error, signupAwait, createCalls, redirectPending, route>>

\* onChangeText={setEmail}, signup.tsx:130
setEmail(text) ==
    /\ SignupShown
    /\ email' = text
    /\ op' = "setEmail"
    /\ alert' = NoAlert
    /\ logged' = NoLog
    /\ toast' = "none"
    /\ UNCHANGED <<dashboardVars, authVars, name, password, confirmPassword, isLoading,
                   error, signupAwait, createCalls, redirectPending, route>>

\* onChangeText={setPassword}, signup.tsx:143
setPassword(text) ==
    /\ SignupShown
    /\ password' = text
    /\ op' = "setPassword"
    /\ alert' = NoAlert
    /\ logged' = NoLog
    /\ toast' = "none"
    /\ UNCHANGED <<dashboardVars, authVars, name, email, confirmPassword, isLoading,
                   error, signupAwait, createCalls, redirectPending, route>>

\* onChangeText={setConfirmPassword}, signup.tsx:165
setConfirmPassword(text) ==
    /\ SignupShown
    /\ confirmPassword' = text
    /\ op' = "setConfirmPassword"
    /\ alert' = NoAlert
    /\ logged' = NoLog
    /\ toast' = "none"
    /\ UNCHANGED <<dashboardVars, authVars, name, email, password, isLoading, error,
                   signupAwait, createCalls, redirectPending, route>>

AnyFieldEmpty == name = "" \/ email = "" \/ password = <<>> \/ confirmPassword = <<>>

\* the length of the password tested before its confirmation
signupValidation_LengthFirst ==
    IF AnyFieldEmpty THEN "Please fill in all fields"
    ELSE IF Len(password) < MinPasswordLength
         THEN "Password should be at least 6 characters"
    ELSE IF password # confirmPassword THEN "Passwords do not match"
    ELSE ""

\* the checks of signup.tsx:24-37: the message they set before returning, or ''
signupValidation ==
    IF AnyFieldEmpty THEN "Please fill in all fields"
    ELSE IF password # confirmPassword THEN "Passwords do not match"
    ELSE IF Len(password) < MinPasswordLength
         THEN "Password should be at least 6 characters"
    ELSE ""

\* handleSignup up to the await of createUserWithEmailAndPassword, signup.tsx:21-42
handleSignupHandler ==
    /\ createCalls < MaxSignups
    /\ error' = signupValidation
    /\ IF signupValidation # ""
       THEN UNCHANGED <<isLoading, signupAwait, createCalls>>
       ELSE /\ isLoading' = TRUE
            /\ signupAwait' = Await("create", name, email)
            /\ createCalls' = createCalls + 1
    /\ op' = "handleSignup"
    /\ alert' = NoAlert
    /\ logged' = NoLog
    /\ toast' = "none"
    /\ UNCHANGED <<dashboardVars, authVars, name, email, password, confirmPassword,
                   redirectPending, route>>

\* onPress={handleSignup} disabled={isLoading}, signup.tsx:190-191
handleSignup ==
    /\ SignupShown
    /\ ~isLoading
    /\ handleSignupHandler

\* signup.tsx:42-44: the account exists and is signed in; updateProfile is awaited
signupCreated ==
    /\ signupAwait.at = "create"
    /\ signupAwait' = [signupAwait EXCEPT !.at = "profile"]
    /\ currentUser' = User(Undefined, signupAwait.email)
    /\ op' = "handleSignup.created"
    /\ alert' = NoAlert
    /\ logged' = NoLog
    /\ toast' = "none"
    /\ UNCHANGED <<dashboardVars, isLoggedIn, displayName, effectPending, logoutPending,
                   name, email, password, confirmPassword, isLoading, error,
                   createCalls, redirectPending, route>>

\* signup.tsx:44-46: the profile has the name; sendEmailVerification is awaited
signupProfileUpdated ==
    /\ signupAwait.at = "profile"
    /\ signupAwait' = [signupAwait EXCEPT !.at = "verify"]
    /\ currentUser' = User(signupAwait.name, signupAwait.email)
    /\ op' = "handleSignup.profileUpdated"
    /\ alert' = NoAlert
    /\ logged' = NoLog
    /\ toast' = "none"
    /\ UNCHANGED <<dashboardVars, isLoggedIn, displayName, effectPending, logoutPending,
                   name, email, password, confirmPassword, isLoading, error,
                   createCalls, redirectPending, route>>

\* finally { setIsLoading(false) }, signup.tsx:75-77
signupFinallyIsLoading == FALSE

\* signup.tsx:46-62 and 75-77: the verification mail is sent; Toast, setTimeout
signupVerificationSent ==
    /\ signupAwait.at = "verify"
    /\ signupAwait' = NoAwait
    /\ toast' = "Email Sent!"
    /\ redirectPending' = redirectPending + 1
    /\ isLoading' = signupFinallyIsLoading
    /\ op' = "handleSignup.done"
    /\ alert' = NoAlert
    /\ logged' = NoLog
    /\ UNCHANGED <<dashboardVars, authVars, name, email, password, confirmPassword,
                   error, createCalls, route>>

\* the message of the catch block, signup.tsx:64-73
signupErrorMessage(err) ==
    IF err.code = "auth/email-already-in-use" THEN "That email address is already in use!"
    ELSE IF err.code = "auth/invalid-email" THEN "That email address is invalid!"
    ELSE IF err.code = "auth/weak-password" THEN "The password is too weak!"
    ELSE OrElse(err.message, "An unknown error occurred")

\* signup.tsx:64-77: one of the three awaits rejected
signupFailed(err) ==
    /\ signupAwait.at # "none"
    /\ signupAwait' = NoAwait
    /\ error' = signupErrorMessage(err)
    /\ isLoading' = signupFinallyIsLoading
    /\ op' = "handleSignup.failed"
    /\ alert' = NoAlert
    /\ logged' = NoLog
    /\ toast' = "none"
    /\ UNCHANGED <<dashboardVars, authVars, name, email, password, confirmPassword,
                   createCalls, redirectPending, route>>

\* the callback of setTimeout, signup.tsx:60-62: router.replace('/')
signupRedirect ==
    /\ redirectPending > 0
    /\ redirectPending' = redirectPending - 1
    /\ route' = "/"
    /\ op' = "signupRedirect"
    /\ alert' = NoAlert
    /\ logged' = NoLog
    /\ toast' = "none"
    /\ UNCHANGED <<dashboardVars, authVars, name, email, password, confirmPassword,
                   isLoading, error, signupAwait, createCalls>>

\* router.back() and the Log In link, signup.tsx:88 and 207
leaveSignup ==
    /\ SignupShown
    /\ route' = "/"
    /\ op' = "leaveSignup"
    /\ alert' = NoAlert
    /\ logged' = NoLog
    /\ toast' = "none"
    /\ UNCHANGED <<dashboardVars, authVars, name, email, password, confirmPassword,
                   isLoading, error, signupAwait, createCalls, redirectPending>>

\* the signup screen opened by a visitor who is not signed in; the dashboard is
\* not mounted
SignupInit ==
    /\ imageUri = Null
    /\ backendIP = <<>>
    /\ detections = ArrayValue(<<>>)
    /\ loading = FALSE
    /\ originalWidth = 0
    /\ originalHeight = 0
    /\ renderedWidth = 0
    /\ pickCount = 0
    /\ awaitPermission = {}
    /\ awaitCamera = {}
    /\ getSizePending = {}
    /\ sendCount = 0
    /\ fetches = {}
    /\ layout = [width |-> 0, height |-> 0]
    /\ op = "mount"
    /\ alert = NoAlert
    /\ logged = NoLog
    /\ isLoggedIn = TRUE
    /\ displayName = ""
    /\ currentUser = NoUser
    /\ effectPending = TRUE
    /\ logoutPending = 0
    /\ SignupIdle
    /\ route = "/signup"

SignupNext ==
    \/ \E text \in Names : setName(text)
    \/ \E text \in Emails : setEmail(text)
    \/ \E text \in Passwords : setPassword(text)
    \/ \E text \in Passwords : setConfirmPassword(text)
    \/ handleSignup
    \/ signupCreated
    \/ signupProfileUpdated
    \/ signupVerificationSent
    \/ \E err \in AuthErrors : signupFailed(err)
    \/ signupRedirect
    \/ leaveSignup

SignupSpec == SignupInit /\ [][SignupNext]_vars

----------------------------------------------------------------------------
(* Properties of the dashboard session (Spec) *)

NoDetections == ArrayValue(<<>>)

\* C1: when the response of an upload issued for a handle that has since been
\* replaced arrives, its detections are discarded: the detections of the
\* session stay empty.
C1_StaleResponseDiscarded ==
    [][\A req \in fetches :
          (fetches' = fetches \ {req} /\ req.uri # imageUri)
              => detections' = NoDetections]_vars

\* C2: the step that sets a new image handle empties the detections in the
\* same step, so the new handle is never paired with the detections shown for
\* the previous one.
C2_CaptureClearsDetections ==
    [][imageUri' # imageUri => (imageUri' # Null /\ detections' = NoDetections)]_vars

\* a capture that replaced an image whose upload had already settled
C2_Witness ==
    /\ op = "pickImage.captured"
    /\ imageUri = UriOf(2)
    /\ detections = NoDetections
    /\ sendCount > 0
    /\ fetches = {}

\* C3: the step that sets a new image handle resets the natural size to
\* unresolved (0, 0) in the same step.
C3_CaptureResetsNaturalSize ==
    [][imageUri' # imageUri => (originalWidth' = 0 /\ originalHeight' = 0)]_vars

\* C4: at most one upload request is in flight in every reachable state.
C4_AtMostOneUpload == Cardinality(fetches) <= 1

\* the process button was pressed while the one request was pending, and the
\* image had been replaced since that request was issued
C4_Witness ==
    /\ op = "processButton.disabled"
    /\ Cardinality(fetches) = 1
    /\ \E req \in fetches : req.uri # imageUri

\* C5: a detect invocation made while one is pending ends with a user-visible
\* error (AlreadyInProgress).
C5_SecondDetectFails == op = "processButton.disabled" => alert # NoAlert

\* C6: the natural size changes only by the completion of a pending
\* resolution, which consumes that resolution and writes the decoded width
\* and the decoded height of the same image in one step.
C6_NaturalSizeAtomic ==
    [][(originalWidth' # originalWidth \/ originalHeight' # originalHeight)
          => \E uri \in getSizePending :
                /\ uri \notin getSizePending'
                /\ originalWidth' = DecodedWidth(uri)
                /\ originalHeight' = DecodedHeight(uri)]_vars

\* a resolution completed while an upload was in flight and after a layout pass
C6_Witness ==
    /\ op = "getSize.success"
    /\ originalWidth = DecodedWidth(imageUri)
    /\ originalHeight = DecodedHeight(imageUri)
    /\ fetches # {}
    /\ renderedWidth > 0

\* C12: every detection held in the state is valid: its confidence is
\* between 0 and 1 (0 and 100 hundredths) and its bbox has x1 < x2 and y1 < y2;
\* invalid entries of a response are dropped.
C12_OnlyValidDetections ==
    LET Valid(det) ==
            /\ 0 <= det.confidence /\ det.confidence <= 100
            /\ det.bbox.x1 < det.bbox.x2
            /\ det.bbox.y1 < det.bbox.y2
    IN \A i \in 1..Len(detections.items) : Valid(detections.items[i])

\* C13: after a successful response whose entries are all valid is applied,
\* the detections are exactly the sequence of the response, and the results
\* list and the overlay enumerate it in the order of the response.
C13_ResponseAppliedInOrder ==
    LET server == logged.results
        Valid(det) ==
            /\ 0 <= det.confidence /\ det.confidence <= 100
            /\ det.bbox.x1 < det.bbox.x2
            /\ det.bbox.y1 < det.bbox.y2
    IN (/\ op = "sendToBackend.ok"
        /\ server.isArray
        /\ \A i \in 1..Len(server.items) : Valid(server.items[i]))
       => /\ detections = server
          /\ Len(detectionsList) = Len(server.items)
          /\ \A i \in 1..Len(server.items) :
                /\ detectionsList[i].class = server.items[i].class
                /\ detectionsList[i].confidence = server.items[i].confidence
                /\ renderDetectionsOverlay.drawn
                   => renderDetectionsOverlay.boxes[i] = bboxStyle(server.items[i])

\* the response [fork, apple] applied and drawn
C13_Witness ==
    /\ op = "sendToBackend.ok"
    /\ logged.results = ArrayValue(<<Det("fork", 40, Bbox(0, 0, 1000, 800)),
                                     Det("apple", 92, Bbox(100, 100, 300, 300))>>)
    /\ detections = logged.results
    /\ renderDetectionsOverlay.drawn
    /\ Len(renderDetectionsOverlay.boxes) = 2

\* C14: a failed upload leaves the detections unchanged and is reported by
\* its class: a transport failure as NetworkError ("Could not connect to
\* backend."), a non-2xx response as ServerError with the message of the server
\* when there is one and the generic message when the field is absent, and a
\* body that is not JSON as ServerError, not as NetworkError.
C14_OutcomeClassification ==
    [][logged'.kind = "error" =>
          LET NetworkError == Alert("Error", "Could not connect to backend.")
              GenericServerError == Alert("Error", "Failed to process image.")
          IN /\ detections' = detections
             /\ alert'.title = "Error"
             /\ logged'.error = NetworkFailure => alert' = NetworkError
             /\ logged'.error # NetworkFailure => alert' # NetworkError
             /\ logged'.error = Undefined => alert' = GenericServerError
             /\ logged'.error \notin {NetworkFailure, JsonParseFailure, Undefined, ""}
                   => alert'.message = logged'.error]_vars

\* C15: sendToBackend with an empty or blank address ends with the Missing IP
\* notice (ConfigError) and, when the address is given, without an image with
\* the No Image notice (NoImage); in both cases no request is issued, loading
\* does not become true, and image, detections and natural size are unchanged;
\* with both missing the Missing IP notice is the one raised.
C15_PreconditionFailures ==
    [][(trim(backendIP) = <<>> \/ imageUri = Null) =>
          /\ alert'.title = IF trim(backendIP) = <<>> THEN "Missing IP" ELSE "No Image"
          /\ fetches' = fetches
          /\ sendCount' = sendCount
          /\ loading' = FALSE
          /\ UNCHANGED <<imageUri, detections, originalWidth, originalHeight>>]_vars

\* the handler was invoked with a blank address and no image
C15_Witness ==
    /\ op = "sendToBackend"
    /\ backendIP = <<" ">>
    /\ imageUri = Null
    /\ alert = MissingIP
    /\ fetches = {}
    /\ ~loading

\* C16: a request is issued only by an accepted sendToBackend invocation,
\* which issues exactly one; the step that settles a request as failed removes
\* it and issues none, so a further request needs a new invocation.
C16_OnePostNoRetry ==
    [][/\ (op' = "sendToBackend" /\ alert' = NoAlert)
          => /\ sendCount' = sendCount + 1
             /\ \E req \in fetches' : req \notin fetches /\ fetches' = fetches \cup {req}
       /\ ~(op' = "sendToBackend" /\ alert' = NoAlert)
          => /\ sendCount' = sendCount
             /\ fetches' \subseteq fetches
       /\ op' \in {"sendToBackend.serverError", "sendToBackend.catch"}
          => /\ fetches' # fetches
             /\ Cardinality(fetches') = Cardinality(fetches) - 1]_vars

\* a second invocation, made by the user after a failure, failed as well and
\* nothing is pending
C16_Witness ==
    /\ op = "sendToBackend.catch"
    /\ sendCount = 2
    /\ fetches = {}
    /\ ~loading

\* C17: the camera is launched only by the continuation that follows a
\* granted permission request; a denied request ends with the Permission
\* Denied notice, launches no camera and changes neither the image, the
\* detections, the natural size nor loading.
C17_PermissionBeforeCamera ==
    [][/\ \A id \in awaitCamera' \ awaitCamera :
             id \in awaitPermission /\ op' = "pickImage.launch"
       /\ op' = "pickImage.denied"
          => /\ alert'.title = "Permission Denied"
             /\ awaitCamera' = awaitCamera
             /\ getSizePending' = getSizePending
             /\ UNCHANGED <<imageUri, detections, originalWidth, originalHeight,
                            loading>>]_vars

\* a permission request was denied while an image with its detections was shown
C17_Witness ==
    /\ op = "pickImage.denied"
    /\ alert.title = "Permission Denied"
    /\ awaitCamera = {}
    /\ imageUri # Null
    /\ detections.isArray
    /\ Len(detections.items) > 0

\* C18: a cancelled camera dialog raises no notice and leaves the image, the
\* detections, the natural size, the rendered size and loading as they were.
C18_CancelIsNoOp ==
    [][op' = "pickImage.canceled"
          => /\ alert' = NoAlert
             /\ UNCHANGED <<imageUri, detections, originalWidth, originalHeight,
                            renderedWidth, layout, loading>>]_vars

\* the dialog was cancelled over a displayed image with its detections
C18_Witness ==
    /\ op = "pickImage.canceled"
    /\ imageUri # Null
    /\ detections.isArray
    /\ Len(detections.items) > 0
    /\ originalWidth > 0
    /\ renderedWidth > 0

\* C20: the colour of a box is a function of its index modulo 6: boxes whose
\* indices are equal modulo 6 have the same colour and boxes whose indices
\* differ modulo 6 have different colours.
C20_ColourByIndexModulo ==
    ProcessedShown =>
        \A i, j \in 0..(Len(detections.items) - 1) :
            /\ i % 6 = j % 6 => bboxBorderColor(i) = bboxBorderColor(j)
            /\ i % 6 # j % 6 => bboxBorderColor(i) # bboxBorderColor(j)

\* C21: every error that occurs is shown to the user as a notice: a denied
\* permission, a failed natural-size resolution, a failed precondition of
\* sendToBackend, a server error and a transport failure each raise an alert.
C21_ErrorsSurfaced ==
    /\ op \in {"pickImage.denied", "getSize.failure", "sendToBackend.serverError",
               "sendToBackend.catch"} => alert # NoAlert
    /\ (op = "sendToBackend" /\ sendToBackendRejects # NoAlert) => alert # NoAlert

\* C22: when an upload issued for a handle that has since been replaced
\* settles as failed (server error or transport failure), no notice is shown.
C22_StaleFailureSilent ==
    [][\A req \in fetches :
          (/\ fetches' = fetches \ {req}
           /\ req.uri # imageUri
           /\ logged'.kind = "error")
              => alert' = NoAlert]_vars

\* C24: the natural size is only ever resolved to the size of the current
\* image handle: a completion for a handle that has been replaced does not
\* write it.
C24_NaturalSizeOfCurrentImage ==
    [][(originalWidth' # originalWidth \/ originalHeight' # originalHeight)
          => /\ originalWidth' = DecodedWidth(imageUri')
             /\ originalHeight' = DecodedHeight(imageUri')]_vars

\* C25: the detections of the session are a sequence, possibly empty, in
\* every state, so that detections.length and detections.map can be read.
C25_DetectionsIsSequence == detections.isArray

\* C26: loading is true exactly while an upload request is outstanding.
C26_LoadingIffPending == loading <=> fetches # {}

\* the one request of the session was settled by a server error
C26_Witness ==
    /\ op = "sendToBackend.serverError"
    /\ sendCount = 1
    /\ fetches = {}
    /\ ~loading

\* C27: the concurrent activities write disjoint fields: a completed
\* natural-size resolution changes only the natural size, starting or settling
\* an upload changes only loading and, on success, the detections, a layout
\* pass changes only the rendered size, and none of them changes the image
\* handle or the backend address.
C27_DisjointWrites ==
    [][/\ op' \in {"getSize.success", "getSize.failure"}
          => UNCHANGED <<imageUri, backendIP, detections, loading, renderedWidth, layout>>
       /\ op' \in {"sendToBackend", "sendToBackend.ok", "sendToBackend.serverError",
                   "sendToBackend.catch"}
          => /\ UNCHANGED <<imageUri, backendIP, originalWidth, originalHeight,
                            renderedWidth, layout>>
             /\ op' # "sendToBackend.ok" => detections' = detections
       /\ op' = "onLayout"
          => UNCHANGED <<imageUri, backendIP, detections, loading, originalWidth,
                         originalHeight>>]_vars

\* an upload settled with detections after a layout pass and a resolved natural
\* size
C27_Witness ==
    /\ op = "sendToBackend.ok"
    /\ Len(detections.items) > 0
    /\ originalWidth = DecodedWidth(imageUri)
    /\ originalHeight = DecodedHeight(imageUri)
    /\ renderedWidth > 0
    /\ backendIP = <<" ", "1", " ">>

\* C28: sendToBackend can be invoked only in a state with an image and an
\* empty detection sequence, and a non-empty detection sequence is changed
\* only by a new capture, never by an upload.
C28_SendOnlyFromRawPreview ==
    [][/\ op' = "sendToBackend" => (imageUri # Null /\ detections = NoDetections)
       /\ (Len(detections.items) > 0 /\ detections' # detections)
          => op' = "pickImage.captured"]_vars

\* a second upload, started for a second image
C28_Witness ==
    /\ op = "sendToBackend"
    /\ alert = NoAlert
    /\ sendCount = 2
    /\ imageUri = UriOf(2)
    /\ detections = NoDetections
    /\ Cardinality(fetches) = 1

----------------------------------------------------------------------------
(* Properties of the coordinate mapper (MapSpec) *)

\* the natural and rendered sizes the mapper is given
natural == [width |-> originalWidth, height |-> originalHeight]
rendered == layout

AllPositive ==
    /\ natural.width > 0 /\ natural.height > 0
    /\ rendered.width > 0 /\ rendered.height > 0

\* C7: no box is drawn when any of natural.width, natural.height,
\* rendered.width, rendered.height is not positive.
C7_UnavailableUnlessAllPositive == ~AllPositive => ~renderDetectionsOverlay.drawn

\* C8: with positive sizes every box is left = x1*rw/nw, top = y1*rh/nh,
\* width = (x2-x1)*rw/nw, height = (y2-y1)*rh/nh.
C8_IndependentScales ==
    AllPositive =>
        /\ renderDetectionsOverlay.drawn
        /\ \A i \in 1..Len(detections.items) :
              LET b == detections.items[i].bbox
                  box == renderDetectionsOverlay.boxes[i]
              IN /\ FracEq(box.left, Frac(b.x1 * rendered.width, natural.width))
                 /\ FracEq(box.top, Frac(b.y1 * rendered.height, natural.height))
                 /\ FracEq(box.width,
                           Frac((b.x2 - b.x1) * rendered.width, natural.width))
                 /\ FracEq(box.height,
                           Frac((b.y2 - b.y1) * rendered.height, natural.height))

\* C9: with positive sizes a bbox equal to the full natural rectangle maps to
\* the full rendered rectangle.
C9_FullRectangle ==
    AllPositive =>
        \A i \in 1..Len(detections.items) :
            detections.items[i].bbox = Bbox(0, 0, natural.width, natural.height)
            => /\ renderDetectionsOverlay.drawn
               /\ LET box == renderDetectionsOverlay.boxes[i]
                  IN /\ FracEq(box.left, Frac(0, 1))
                     /\ FracEq(box.top, Frac(0, 1))
                     /\ FracEq(box.width, Frac(rendered.width, 1))
                     /\ FracEq(box.height, Frac(rendered.height, 1))

\* C10: a layout pass that doubles rendered.width and keeps rendered.height
\* and the natural size doubles the left and the width of every box.
C10_DoublingWidth ==
    [][(/\ AllPositive
        /\ layout'.width = 2 * layout.width
        /\ layout'.height = layout.height
        /\ UNCHANGED <<originalWidth, originalHeight, detections>>)
       => /\ renderDetectionsOverlay.drawn
          /\ renderDetectionsOverlay'.drawn
          /\ \A i \in 1..Len(detections.items) :
                /\ FracEq(renderDetectionsOverlay'.boxes[i].left,
                          FracTimes(2, renderDetectionsOverlay.boxes[i].left))
                /\ FracEq(renderDetectionsOverlay'.boxes[i].width,
                          FracTimes(2, renderDetectionsOverlay.boxes[i].width))]_vars

\* the box of bbox {100,100,300,300} on a 1000-wide image after the rendered
\* width went from 500 to 1000: left 100, width 200
C10_Witness ==
    /\ op = "onLayout"
    /\ AllPositive
    /\ originalWidth = 1000
    /\ renderedWidth = 1000
    /\ detections.items[1].bbox = Bbox(100, 100, 300, 300)
    /\ FracEq(renderDetectionsOverlay.boxes[1].left, Frac(100, 1))
    /\ FracEq(renderDetectionsOverlay.boxes[1].width, Frac(200, 1))

\* C19: a layout pass onLayout(w, h) makes {w, h} the rendered size whatever
\* it was before, changes nothing when it repeats the previous measurement,
\* and the boxes drawn after it are computed from both w and h.
C19_LayoutLastWriteWins ==
    [][op' = "onLayout" =>
          /\ renderedWidth' = layout'.width
          /\ layout' = layout => UNCHANGED reactVars
          /\ AllPositive' =>
                /\ renderDetectionsOverlay'.drawn
                /\ \A i \in 1..Len(detections'.items) :
                      LET b == detections'.items[i].bbox
                          box == renderDetectionsOverlay'.boxes[i]
                      IN /\ FracEq(box.left, Frac(b.x1 * layout'.width, originalWidth'))
                         /\ FracEq(box.top, Frac(b.y1 * layout'.height, originalHeight'))]_vars

----------------------------------------------------------------------------
(* Properties of the login gate (AuthSpec) *)

----------------------------------------------------------------------------
(* Properties of the signup screen (SignupSpec) *)

\* C30: handleSignup checks, in this order, that no field is empty, that the
\* password equals its confirmation and that it has at least 6 characters; the
\* message of the first check that fails is the error shown, no account
\* creation is called and isLoading stays false; an account creation is called
\* only when all checks pass, and once the attempt has settled, by success or
\* by failure, isLoading is false again.
C30_SignupValidation ==
    [][/\ op' = "handleSignup"
          => LET expected ==
                    IF name = "" \/ email = "" \/ password = <<>> \/ confirmPassword = <<>>
                    THEN "Please fill in all fields"
                    ELSE IF password # confirmPassword THEN "Passwords do not match"
                    ELSE IF Len(password) < 6
                         THEN "Password should be at least 6 characters"
                    ELSE ""
             IN /\ error' = expected
                /\ expected # ""
                   => /\ createCalls' = createCalls
                      /\ signupAwait' = NoAwait
                      /\ isLoading' = FALSE
                /\ expected = ""
                   => /\ createCalls' = createCalls + 1
                      /\ signupAwait'.at = "create"
                      /\ isLoading' = TRUE
       /\ createCalls' # createCalls => op' = "handleSignup"
       /\ op' \in {"handleSignup.done", "handleSignup.failed"}
          => (signupAwait' = NoAwait /\ isLoading' = FALSE)]_vars

\* after an attempted creation had settled, a password of 5 characters with a
\* different confirmation was rejected as a mismatch
C30_Witness ==
    /\ op = "handleSignup"
    /\ createCalls = 1
    /\ name # "" /\ email # ""
    /\ Len(password) = 5
    /\ Len(confirmPassword) = 6
    /\ error = "Passwords do not match"
    /\ ~isLoading
    /\ signupAwait = NoAwait

----------------------------------------------------------------------------
(* Properties of the variant with the Clear Image button (ClearSpec) *)

\* C23: in every state a non-empty detection sequence implies that an image
\* handle is present: no results list is shown without its image, also after
\* the Clear Image action.
C23_DetectionsImplyImage == variantResultsListShown => imageUri # Null

----------------------------------------------------------------------------
(* Properties of the "contain" variant (ContainSpec) *)

\* C11: in the "contain" variant, with positive sizes, every box is placed
\* with the single uniform scale min(rw/nw, rh/nh) plus the centering offsets,
\* and so the box of a bbox inside the natural rectangle lies inside the
\* letterboxed image area.
C11_ContainUniformScale ==
    LET uniformScale == FracMin(Frac(rendered.width, natural.width),
                                Frac(rendered.height, natural.height))
        filledWidth == FracTimes(natural.width, uniformScale)
        filledHeight == FracTimes(natural.height, uniformScale)
        offsetX == FracHalf(FracMinus(Frac(rendered.width, 1), filledWidth))
        offsetY == FracHalf(FracMinus(Frac(rendered.height, 1), filledHeight))
        InsideNatural(b) ==
            /\ 0 <= b.x1 /\ b.x1 < b.x2 /\ b.x2 <= natural.width
            /\ 0 <= b.y1 /\ b.y1 < b.y2 /\ b.y2 <= natural.height
    IN AllPositive =>
        /\ containDetectionsOverlay.drawn
        /\ \A i \in 1..Len(detections.items) :
              LET b == detections.items[i].bbox
                  box == containDetectionsOverlay.boxes[i]
              IN InsideNatural(b) =>
                 /\ FracEq(box.left, FracPlus(offsetX, FracTimes(b.x1, uniformScale)))
                 /\ FracEq(box.top, FracPlus(offsetY, FracTimes(b.y1, uniformScale)))
                 /\ FracLeq(offsetX, box.left)
                 /\ FracLeq(offsetY, box.top)
                 /\ FracLeq(FracPlus(box.left, box.width), FracPlus(offsetX, filledWidth))
                 /\ FracLeq(FracPlus(box.top, box.height), FracPlus(offsetY, filledHeight))

====
